---- MODULE Spec2Model ----
(***************************************************************************)
(* Model of build_docs.py, the DS01 documentation build script.            *)
(*                                                                         *)
(* A Python str is the sequence of its characters, each a one-character    *)
(* string: file names, URLs, markdown source, titles, the markup the       *)
(* script emits with f-strings, the template and its placeholders.  A      *)
(* pathlib.Path below DOCS_DIR is the sequence of its parts relative to    *)
(* DOCS_DIR.  The documentation tree is the map from the path of each      *)
(* regular file to its content; its directories are the proper prefixes    *)
(* of those paths.                                                         *)
(***************************************************************************)
EXTENDS Naturals, Integers, Sequences, FiniteSets, TLC

VARIABLES
    docs,        \* the tree under DOCS_DIR: path of a regular file -> content
    enum,        \* directory -> its entries in the order scandir lists them
    unreadable,  \* regular files whose read_text raises
    templateFile,\* content of TEMPLATE_FILE, or NoFile when it is missing
    site,        \* the tree under OUTPUT_DIR: destination path -> file content
    pc,          \* position of the running operation
    run,         \* which invocation of main() this is
    template,    \* main's local: the loaded template text
    md_files,    \* main's local: the paths still to process, in loop order
    written,     \* the pages main has written in this run: destination -> page
    failedAt,    \* the write_text call that raised in this run, if any
    prevSite,    \* the output tree as it was when this invocation started
    prevDone,    \* whether the invocation before this one completed
    arg,         \* argument of the function under study
    ret          \* its return value

vars == <<docs, enum, unreadable, templateFile, site, pc, run, template,
          md_files, written, failedAt, prevSite, prevDone, arg, ret>>

buildVars == <<site, run, template, md_files, written, failedAt, prevSite,
              prevDone>>
envVars == <<docs, enum, unreadable, templateFile>>

NoFile == <<"<no such file>">>
None == <<"<None>">>

\* No write_text call has raised.
NoFailure == [dest |-> None, html |-> None]

\* A directory tree that holds no file.
NoTree == [p \in {} |-> <<>>]

-----------------------------------------------------------------------------
(* Strings                                                                 *)

lower == <<"a","b","c","d","e","f","g","h","i","j","k","l","m",
           "n","o","p","q","r","s","t","u","v","w","x","y","z">>
upper == <<"A","B","C","D","E","F","G","H","I","J","K","L","M",
           "N","O","P","Q","R","S","T","U","V","W","X","Y","Z">>
digits == <<"0","1","2","3","4","5","6","7","8","9">>

\* The characters of the model in code point order: ASCII 9, 10, 12, 13 and
\* 32..126 but the grave accent.
CodePoints ==
    <<"\t", "\n", "\f", "\r", " ", "!", "\"", "#", "$", "%", "&", "'", "(",
      ")", "*", "+", ",", "-", ".", "/">> \o digits
    \o <<":", ";", "<", "=", ">", "?", "@">> \o upper
    \o <<"[", "\\", "]", "^", "_">> \o lower \o <<"{", "|", "}", "~">>

Ord(c) == CHOOSE i \in 1..Len(CodePoints) : CodePoints[i] = c

Range(f) == {f[i] : i \in DOMAIN f}

IsLower(c) == c \in Range(lower)
IsUpper(c) == c \in Range(upper)
IsCased(c) == IsLower(c) \/ IsUpper(c)
ToUpper(c) == IF IsLower(c) THEN upper[CHOOSE i \in 1..26 : lower[i] = c] ELSE c
ToLower(c) == IF IsUpper(c) THEN lower[CHOOSE i \in 1..26 : upper[i] = c] ELSE c

\* str.isspace for one character (the class \s of re, what str.strip
\* removes), over the characters of the model.  Python counts as whitespace
\* also "\v", "\x1c".."\x1f" and the Unicode spaces, which are no characters
\* of the model.
IsSpace(c) == c \in {" ", "\t", "\n", "\r", "\f"}

\* s[from:] == s[from..Len(s)]
From(s, i) == SubSeq(s, i, Len(s))

\* s.startswith(p, i - 1)
StartsWithAt(s, p, i) ==
    /\ i + Len(p) - 1 <= Len(s)
    /\ p = <<>> \/ s[i] = p[1]
    /\ SubSeq(s, i, i + Len(p) - 1) = p
EndsWith(s, p) == Len(p) <= Len(s) /\ SubSeq(s, Len(s) - Len(p) + 1, Len(s)) = p

\* s.find(old, from): the least index >= from where old occurs, 0 if none.
FindFrom(s, old, from) ==
    LET hits == {i \in from..(Len(s) + 1 - Len(old)) : StartsWithAt(s, old, i)}
    IN IF hits = {} THEN 0 ELSE CHOOSE i \in hits : \A j \in hits : i <= j

\* s.rfind(c): the greatest index where character c occurs, 0 if none.
RFind(s, c) ==
    LET hits == {i \in 1..Len(s) : s[i] = c}
    IN IF hits = {} THEN 0 ELSE CHOOSE i \in hits : \A j \in hits : j <= i

Contains(s, old) == FindFrom(s, old, 1) # 0

RECURSIVE ReplaceFrom(_, _, _, _)
ReplaceFrom(s, old, new, from) ==
    LET i == FindFrom(s, old, from)
    IN IF i = 0 THEN From(s, from)
       ELSE SubSeq(s, from, i - 1) \o new \o ReplaceFrom(s, old, new, i + Len(old))

\* str.replace(old, new): every non-overlapping occurrence, left to right.
Replace(s, old, new) == ReplaceFrom(s, old, new, 1)

\* str.strip()
Strip(s) ==
    LET keep == {i \in 1..Len(s) : ~IsSpace(s[i])}
    IN IF keep = {} THEN <<>>
       ELSE SubSeq(s, CHOOSE i \in keep : \A j \in keep : i <= j,
                      CHOOSE i \in keep : \A j \in keep : j <= i)

\* str.title(): a cased character is upper-cased after an uncased one (or at
\* the start) and lower-cased after a cased one.
Title(s) ==
    [i \in 1..Len(s) |->
        IF i = 1 \/ ~IsCased(s[i - 1]) THEN ToUpper(s[i]) ELSE ToLower(s[i])]

\* Lexicographic order of two strings by code point (str.__lt__).
RECURSIVE StrLess(_, _)
StrLess(a, b) ==
    IF b = <<>> THEN FALSE
    ELSE IF a = <<>> THEN TRUE
    ELSE IF a[1] # b[1] THEN Ord(a[1]) < Ord(b[1])
    ELSE StrLess(Tail(a), Tail(b))

\* The concatenation of a sequence of strings (by halves).
RECURSIVE Flatten(_)
Flatten(ss) ==
    IF ss = <<>> THEN <<>>
    ELSE IF Len(ss) = 1 THEN ss[1]
    ELSE Flatten(SubSeq(ss, 1, Len(ss) \div 2))
         \o Flatten(SubSeq(ss, Len(ss) \div 2 + 1, Len(ss)))

\* sep.join(ss)
Join(sep, ss) ==
    Flatten([i \in 1..Len(ss) |-> IF i = 1 THEN ss[i] ELSE sep \o ss[i]])

-----------------------------------------------------------------------------
(* Configuration (build_docs.py lines 16-35)                               *)

DOCS_DIR == <<"d","o","c","s">>

README_md == <<"R","E","A","D","M","E",".","m","d">>
index_html == <<"i","n","d","e","x",".","h","t","m","l">>
dot_html == <<".","h","t","m","l">>
dot_md == <<".","m","d">>

-----------------------------------------------------------------------------
(* pathlib                                                                 *)

\* PurePath.name, PurePath.parent (as parts), str(PurePath)
Name(p) == p[Len(p)]
Parent(p) == SubSeq(p, 1, Len(p) - 1)
PathStr(p) == Join(<<"/">>, p)

\* PurePath.suffix of a file name: from the last dot, unless that dot is the
\* first or the last character.
Suffix(name) ==
    LET i == RFind(name, ".")
    IN IF 1 < i /\ i < Len(name) THEN From(name, i) ELSE <<>>

\* PurePath.stem
Stem(name) ==
    LET i == RFind(name, ".")
    IN IF 1 < i /\ i < Len(name) THEN SubSeq(name, 1, i - 1) ELSE name

\* PurePath.with_suffix(suffix)
WithSuffix(p, suffix) ==
    LET name == Name(p)
        old == Suffix(name)
        new == IF old = <<>> THEN name \o suffix
               ELSE SubSeq(name, 1, Len(name) - Len(old)) \o suffix
    IN Parent(p) \o <<new>>

\* fnmatch of a file name against "*.md"
MatchesStarMd(name) == EndsWith(name, dot_md)

-----------------------------------------------------------------------------
(* md_to_html_path (lines 67-72); rel is md_path.relative_to(DOCS_DIR)     *)

md_to_html_path(rel) ==
    IF Name(rel) = README_md
    THEN PathStr(Parent(rel) \o <<index_html>>)
    ELSE PathStr(WithSuffix(rel, dot_html))

-----------------------------------------------------------------------------
(* get_title_from_markdown (lines 38-47)                                   *)

\* Index of the end of the line that holds position q: the position of the
\* next "\n", or Len+1.
LineEnd(content, q) ==
    LET nl == FindFrom(content, <<"\n">>, q)
    IN IF nl = 0 THEN Len(content) + 1 ELSE nl

\* Length of the run of whitespace that starts at position i.
SpaceRun(content, i) ==
    LET stops == {j \in i..Len(content) : ~IsSpace(content[j])}
    IN IF stops = {} THEN Len(content) + 1 - i
       ELSE (CHOOSE j \in stops : \A k \in stops : j <= k) - i

\* re: ^#\s+(.+)$ with re.MULTILINE, tried at position i.  "^" holds at the
\* start and after a newline; \s+ is greedy and gives characters back until
\* (.+)$ can match, which needs a character other than "\n" right after it.
\* The value is the start of group 1, or 0 when there is no match at i.
HeadingGroupStart(content, i) ==
    IF ~((i = 1 \/ content[i - 1] = "\n") /\ content[i] = "#") THEN 0
    ELSE LET k == SpaceRun(content, i + 1)
             ok == {q \in (i + 2)..(i + 1 + k) :
                        q <= Len(content) /\ content[q] # "\n"}
         IN IF ok = {} THEN 0 ELSE CHOOSE q \in ok : \A r \in ok : r <= q

\* re.search: the leftmost position that has a match, 0 if none.
HeadingStart(content) ==
    LET starts == {i \in 1..Len(content) : HeadingGroupStart(content, i) # 0}
    IN IF starts = {} THEN 0 ELSE CHOOSE i \in starts : \A j \in starts : i <= j

\* match.group(1), or None when re.search returns None
HeadingMatch(content) ==
    LET i == HeadingStart(content)
    IN IF i = 0 THEN None
       ELSE LET q == HeadingGroupStart(content, i)
            IN SubSeq(content, q, LineEnd(content, q) - 1)

\* filepath.stem, or filepath.parent.name for README and index
FallbackName(rel) ==
    LET name == Stem(Name(rel))
    IN IF name \in {<<"R","E","A","D","M","E">>, <<"i","n","d","e","x">>}
       THEN (IF Len(rel) = 1 THEN DOCS_DIR ELSE rel[Len(rel) - 1])
       ELSE name

Prettify(name) == Title(Replace(Replace(name, <<"-">>, <<" ">>), <<"_">>, <<" ">>))

get_title_from_markdown(content, rel) ==
    LET match == HeadingMatch(content)
    IN IF match # None THEN Strip(match) ELSE Prettify(FallbackName(rel))

-----------------------------------------------------------------------------
(* convert_internal_links (lines 136-143)                                  *)

\* One match of the pattern  \]\(([^)]{minX,})TAIL\)  that starts at i:
\* "](", then group 1 up to TAIL, then the first ")" after "](".  The value
\* is the position of that ")", or 0 when the pattern does not match at i.
LinkMatchEnd(s, i, minX, tail) ==
    IF ~StartsWithAt(s, <<"]", "(">>, i) THEN 0
    ELSE LET close == FindFrom(s, <<")">>, i + 2)
         IN IF /\ close # 0
               /\ close - Len(tail) >= i + 2 + minX
               /\ StartsWithAt(s, tail, close - Len(tail))
            THEN close ELSE 0

\* re.sub of that pattern by ](\1NEWTAIL) on s[from:]: the leftmost match,
\* then on from the end of that match.
RECURSIVE LinkSubFrom(_, _, _, _, _)
LinkSubFrom(s, from, minX, tail, newTail) ==
    LET hits == {i \in from..Len(s) : LinkMatchEnd(s, i, minX, tail) # 0}
    IN IF hits = {} THEN From(s, from)
       ELSE LET i == CHOOSE i \in hits : \A j \in hits : i <= j
                close == LinkMatchEnd(s, i, minX, tail)
            IN SubSeq(s, from, close - Len(tail) - 1) \o newTail \o <<")">>
               \o LinkSubFrom(s, close + 1, minX, tail, newTail)

slash_README_html == <<"/","R","E","A","D","M","E",".","h","t","m","l">>
slash_index_html == <<"/","i","n","d","e","x",".","h","t","m","l">>
link_README_html == <<"]","(","R","E","A","D","M","E",".","h","t","m","l",")">>
link_index_html == <<"]","(","i","n","d","e","x",".","h","t","m","l",")">>

\* line 139: re.sub(r'\]\(([^)]+)\.md\)', r'](\1.html)', content)
MdToHtmlLinks(content) == LinkSubFrom(content, 1, 1, dot_md, dot_html)

\* line 141: re.sub(r'\]\(([^)]*)/README\.html\)', r'](\1/index.html)', content)
DirReadmeLinks(content) ==
    LinkSubFrom(content, 1, 0, slash_README_html, slash_index_html)

\* line 142: re.sub(r'\]\(README\.html\)', r'](index.html)', content)
BareReadmeLinks(content) == Replace(content, link_README_html, link_index_html)

\* The README rules applied before the .md rule.
convert_internal_links_readme_first(content) ==
    MdToHtmlLinks(BareReadmeLinks(DirReadmeLinks(content)))

convert_internal_links(content) ==
    BareReadmeLinks(DirReadmeLinks(MdToHtmlLinks(content)))

-----------------------------------------------------------------------------
(* The file system below DOCS_DIR                                          *)

IsPrefix(d, p) == Len(d) <= Len(p) /\ SubSeq(p, 1, Len(d)) = d

\* Every path below DOCS_DIR in a tree with these regular files: the files
\* and the directories that hold them.
EntriesOf(files) == UNION {{SubSeq(f, 1, k) : k \in 1..Len(f)} : f \in files}

\* The directories of such a tree, DOCS_DIR itself (<<>>) included.
DirsOf(files) == {<<>>} \cup (EntriesOf(files) \ files)

\* The entries directly in directory dir
ChildrenOf(files, dir) ==
    {e \in EntriesOf(files) : SubSeq(e, 1, Len(e) - 1) = dir}

\* Path.exists() of DOCS_DIR / p
Exists(p) == \E f \in DOMAIN docs : IsPrefix(p, f)

\* Path.is_dir() of DOCS_DIR / p
IsDir(p) == p \in DirsOf(DOMAIN docs)

\* Every order in which a set of entries can be enumerated.
Perms(S) ==
    {s \in [1..Cardinality(S) -> S] :
        \A i, j \in 1..Cardinality(S) : i # j => s[i] # s[j]}

\* Every way the file system can order the entries of these directories.
RECURSIVE OrdersOver(_, _)
OrdersOver(files, dirs) ==
    IF dirs = {} THEN {NoTree}
    ELSE LET d == CHOOSE d \in dirs : TRUE
         IN {(d :> s) @@ rest : s \in Perms(ChildrenOf(files, d)),
                                rest \in OrdersOver(files, dirs \ {d})}

\* Every enumeration order of a tree with these regular files.
ScanOrders(files) == OrdersOver(files, DirsOf(files))

\* os.scandir(DOCS_DIR / dir): nothing for what is no directory
Scandir(order, dir) == IF dir \in DOMAIN order THEN order[dir] ELSE <<>>

\* The entries of a listing whose name matches "*.md", files and directories
MdEntries(listing) == SelectSeq(listing, LAMBDA e : MatchesStarMd(Name(e)))

\* (DOCS_DIR / dir).rglob("*.md"): the matching entries of dir, then those
\* of each of its subdirectories in turn, each subtree in full
RECURSIVE RGlobIn(_, _)
RGlobIn(order, dir) ==
    LET listing == Scandir(order, dir)
    IN MdEntries(listing)
       \o Flatten([i \in 1..Len(listing) |->
                      IF listing[i] \in DOMAIN order
                      THEN RGlobIn(order, listing[i]) ELSE <<>>])

\* DOCS_DIR.rglob("*.md")
RGlob(order) == RGlobIn(order, <<>>)

\* (DOCS_DIR / dir).glob("*.md"): the direct entries only
Glob(dir) == MdEntries(Scandir(enum, dir))

\* PurePath.__lt__: part by part, each part by code point
RECURSIVE PathLess(_, _)
PathLess(p, q) ==
    IF q = <<>> THEN FALSE
    ELSE IF p = <<>> THEN TRUE
    ELSE IF p[1] # q[1] THEN StrLess(p[1], q[1])
    ELSE PathLess(Tail(p), Tail(q))

\* sorted(paths)
Sorted(paths) == SortSeq(paths, PathLess)

\* Path.read_text raises: the file cannot be read, or the path is a
\* directory (IsADirectoryError)
Raises(f) == f \in unreadable \/ IsDir(f)

-----------------------------------------------------------------------------
-----------------------------------------------------------------------------
(* Navigation structure (lines 22-35)                                      *)

NAV_STRUCTURE == <<
    [title |-> <<"H","o","m","e">>,
     url |-> <<"i","n","d","e","x",".","h","t","m","l">>,
     section_dir |-> None],
    [title |-> <<"Q","u","i","c","k","s","t","a","r","t">>,
     url |-> <<"q","u","i","c","k","s","t","a","r","t",".","h","t","m","l">>,
     section_dir |-> None],
    [title |-> <<"Q","u","i","c","k"," ","R","e","f","e","r","e","n","c","e">>,
     url |-> <<"q","u","i","c","k","-","r","e","f","e","r","e","n","c","e",".","h","t","m","l">>,
     section_dir |-> None],
    [title |-> <<"G","e","t","t","i","n","g"," ","S","t","a","r","t","e","d">>,
     url |-> <<"g","e","t","t","i","n","g","-","s","t","a","r","t","e","d","/","i","n","d","e","x",".","h","t","m","l">>,
     section_dir |-> <<"g","e","t","t","i","n","g","-","s","t","a","r","t","e","d">>],
    [title |-> <<"C","o","r","e"," ","G","u","i","d","e","s">>,
     url |-> <<"c","o","r","e","-","g","u","i","d","e","s","/","i","n","d","e","x",".","h","t","m","l">>,
     section_dir |-> <<"c","o","r","e","-","g","u","i","d","e","s">>],
    [title |-> <<"I","n","t","e","r","m","e","d","i","a","t","e">>,
     url |-> <<"i","n","t","e","r","m","e","d","i","a","t","e","/","i","n","d","e","x",".","h","t","m","l">>,
     section_dir |-> <<"i","n","t","e","r","m","e","d","i","a","t","e">>],
    [title |-> <<"A","d","v","a","n","c","e","d">>,
     url |-> <<"a","d","v","a","n","c","e","d","/","i","n","d","e","x",".","h","t","m","l">>,
     section_dir |-> <<"a","d","v","a","n","c","e","d">>],
    [title |-> <<"K","e","y"," ","C","o","n","c","e","p","t","s">>,
     url |-> <<"k","e","y","-","c","o","n","c","e","p","t","s","/","i","n","d","e","x",".","h","t","m","l">>,
     section_dir |-> <<"k","e","y","-","c","o","n","c","e","p","t","s">>],
    [title |-> <<"B","a","c","k","g","r","o","u","n","d">>,
     url |-> <<"b","a","c","k","g","r","o","u","n","d","/","i","n","d","e","x",".","h","t","m","l">>,
     section_dir |-> <<"b","a","c","k","g","r","o","u","n","d">>],
    [title |-> <<"R","e","f","e","r","e","n","c","e">>,
     url |-> <<"r","e","f","e","r","e","n","c","e","/","i","n","d","e","x",".","h","t","m","l">>,
     section_dir |-> <<"r","e","f","e","r","e","n","c","e">>],
    [title |-> <<"T","r","o","u","b","l","e","s","h","o","o","t","i","n","g">>,
     url |-> <<"t","r","o","u","b","l","e","s","h","o","o","t","i","n","g","/","i","n","d","e","x",".","h","t","m","l">>,
     section_dir |-> <<"t","r","o","u","b","l","e","s","h","o","o","t","i","n","g">>]
>>


-----------------------------------------------------------------------------
(* get_files_in_section (lines 50-64)                                      *)

\* The loop of lines 60-62 without sorted().
get_files_in_section_unsorted(section_dir) ==
    IF ~Exists(section_dir) THEN <<>>
    ELSE (IF Exists(section_dir \o <<README_md>>)
          THEN <<section_dir \o <<README_md>> >> ELSE <<>>)
         \o SelectSeq(Glob(section_dir), LAMBDA f : Name(f) # README_md)

get_files_in_section(section_dir) ==
    IF ~Exists(section_dir) THEN <<>>
    ELSE (IF Exists(section_dir \o <<README_md>>)
          THEN <<section_dir \o <<README_md>> >> ELSE <<>>)
         \o SelectSeq(Sorted(Glob(section_dir)), LAMBDA f : Name(f) # README_md)

-----------------------------------------------------------------------------
(* build_sidebar (lines 75-111).  The list html is a sequence of items,    *)
(* one per appended line; RenderLine is the text of that line.             *)

Item(kind, url, active, title) ==
    [kind |-> kind, url |-> url, active |-> active, title |-> title]
Markup(kind) == Item(kind, <<>>, FALSE, <<>>)

\* lines 91-101: README is read and then skipped
ChildItems(children, current_page) ==
    LET shown == SelectSeq(children, LAMBDA c : Name(c) # README_md)
    IN [i \in 1..Len(shown) |->
           Item("child", md_to_html_path(shown[i]),
                current_page = md_to_html_path(shown[i]),
                get_title_from_markdown(docs[shown[i]], shown[i]))]

\* lines 80-108: the items of one navigation entry
EntryItems(entry, current_page) ==
    IF entry.section_dir # None
    THEN LET children == get_files_in_section(<<entry.section_dir>>)
         IN <<Item("section", entry.url, FALSE, entry.title)>>
            \o (IF children # <<>>
                THEN <<Markup("<ul>")>> \o ChildItems(children, current_page)
                     \o <<Markup("</ul>")>>
                ELSE <<>>)
            \o <<Markup("</li>")>>
    ELSE <<Item("page", entry.url, current_page = entry.url, entry.title)>>

sidebar_html(current_page) ==
    <<Markup("<ul>")>>
    \o Flatten([i \in 1..Len(NAV_STRUCTURE) |->
                   EntryItems(NAV_STRUCTURE[i], current_page)])
    \o <<Markup("</ul>")>>

\* ' class="active"' if ... else ''
ActiveClass(active) == IF active THEN <<" ","c","l","a","s","s","=","\"","a","c","t","i","v","e","\"">> ELSE <<>>

RenderLine(item) ==
    CASE item.kind = "section" ->
            <<"<","l","i",">","<","s","p","a","n"," ","c","l","a","s","s","=","\"","s","e","c","t","i","o","n","-","t","i","t","l","e","\"",">","<","a"," ","h","r","e","f","=","\"">> \o item.url
            \o <<"\"",">">> \o item.title \o <<"<","/","a",">","<","/","s","p","a","n",">">>
      [] item.kind = "page" ->
            <<"<","l","i",">","<","s","p","a","n"," ","c","l","a","s","s","=","\"","s","e","c","t","i","o","n","-","t","i","t","l","e","\"",">","<","a"," ","h","r","e","f","=","\"">> \o item.url
            \o <<"\"">> \o ActiveClass(item.active) \o <<">">> \o item.title
            \o <<"<","/","a",">","<","/","s","p","a","n",">","<","/","l","i",">">>
      [] item.kind = "child" ->
            <<"<","l","i",">","<","a"," ","h","r","e","f","=","\"">> \o item.url \o <<"\"">>
            \o ActiveClass(item.active) \o <<">">> \o item.title
            \o <<"<","/","a",">","<","/","l","i",">">>
      [] item.kind = "<ul>" -> <<"<","u","l",">">>
      [] item.kind = "</ul>" -> <<"<","/","u","l",">">>
      [] item.kind = "</li>" -> <<"<","/","l","i",">">>

build_sidebar(current_page) ==
    LET html == sidebar_html(current_page)
    IN Join(<<"\n">>, [i \in 1..Len(html) |-> RenderLine(html[i])])

\* child.read_text raises for some child of some section (line 93)
build_sidebar_raises ==
    \E i \in 1..Len(NAV_STRUCTURE) :
        /\ NAV_STRUCTURE[i].section_dir # None
        /\ \E c \in Range(get_files_in_section(<<NAV_STRUCTURE[i].section_dir>>)) :
               Raises(c)

-----------------------------------------------------------------------------
(* build_breadcrumb (lines 114-133)                                        *)

SectionTitle(section) == Prettify(section)

build_breadcrumb(rel) ==
    IF Len(rel) = 1 THEN <<>>
    ELSE IF Name(rel) = README_md
    THEN <<"<","l","i",">">> \o SectionTitle(rel[1]) \o <<"<","/","l","i",">">>
    ELSE <<"<","l","i",">","<","a"," ","h","r","e","f","=","\"","i","n","d","e","x",".","h","t","m","l","\"",">">> \o SectionTitle(rel[1])
         \o <<"<","/","a",">","<","/","l","i",">","<","l","i",">">> \o get_title_from_markdown(docs[rel], rel)
         \o <<"<","/","l","i",">">>

\* filepath.read_text raises (line 130)
build_breadcrumb_raises(rel) ==
    Len(rel) > 1 /\ Name(rel) # README_md /\ Raises(rel)

-----------------------------------------------------------------------------
(* build_page (lines 146-175)                                              *)

TITLE == <<"{","{","t","i","t","l","e","}","}">>
SIDEBAR == <<"{","{","s","i","d","e","b","a","r","}","}">>
BREADCRUMB == <<"{","{","b","r","e","a","d","c","r","u","m","b","}","}">>
CONTENT == <<"{","{","c","o","n","t","e","n","t","}","}">>

\* The lines of a text: the pieces between newlines.
RECURSIVE SplitLines(_)
SplitLines(text) ==
    LET nl == FindFrom(text, <<"\n">>, 1)
    IN IF nl = 0 THEN <<text>>
       ELSE <<SubSeq(text, 1, nl - 1)>> \o SplitLines(From(text, nl + 1))

\* markdown.Markdown(...).convert, the external renderer, reduced to what the
\* build relies on: a "# " line becomes a heading, every other non-blank
\* line a paragraph, and text passes through unchanged.
RenderBlock(line) ==
    IF Len(line) >= 2 /\ line[1] = "#" /\ line[2] = " " /\ Strip(From(line, 2)) # <<>>
    THEN <<"<","h","1",">">> \o Strip(From(line, 2)) \o <<"<","/","h","1",">">>
    ELSE <<"<","p",">">> \o line \o <<"<","/","p",">">>

MarkdownConvert(text) ==
    LET blocks == SelectSeq(SplitLines(text), LAMBDA l : Strip(l) # <<>>)
    IN Join(<<"\n">>, [i \in 1..Len(blocks) |-> RenderBlock(blocks[i])])

html_content_of(rel) == MarkdownConvert(convert_internal_links(docs[rel]))

\* lines 170-173 with the content filled in first.
FillTemplateContentFirst(tmpl, title, sidebar, breadcrumb, html_content) ==
    Replace(Replace(Replace(Replace(tmpl, CONTENT, html_content),
                            TITLE, title), SIDEBAR, sidebar),
            BREADCRUMB, breadcrumb)

\* lines 170-173
FillTemplate(tmpl, title, sidebar, breadcrumb, html_content) ==
    Replace(Replace(Replace(Replace(tmpl, TITLE, title), SIDEBAR, sidebar),
                    BREADCRUMB, breadcrumb),
            CONTENT, html_content)

build_page(rel, tmpl) ==
    FillTemplate(tmpl,
                 get_title_from_markdown(docs[rel], rel),
                 build_sidebar(md_to_html_path(rel)),
                 build_breadcrumb(rel),
                 html_content_of(rel))

\* md_path.read_text (line 148), a child's (line 93) or the page's own again
\* (line 130) raises
build_page_raises(rel) ==
    Raises(rel) \/ build_sidebar_raises \/ build_breadcrumb_raises(rel)

-----------------------------------------------------------------------------
(* main (lines 178-207), one action per step.  The output tree is the map  *)
(* from the path of each file below OUTPUT_DIR to its content; its         *)
(* directories are the proper prefixes of those paths.                     *)

\* line 185 alone, on an output directory that is already there.
mkdir_exist_ok(tree) == tree

\* lines 183-185: shutil.rmtree(OUTPUT_DIR) if it exists, then mkdir
rmtree_and_mkdir(tree) == NoTree

\* Path.write_text(html) completed: the file holds html.
WithFile(tree, dest, html) ==
    [d \in DOMAIN tree \cup {dest} |-> IF d = dest THEN html ELSE tree[d]]

\* What write_text can leave behind when it raises after opening the file:
\* the file truncated, or holding the page up to any point short of its end.
CutOff(html) == {SubSeq(html, 1, n) : n \in 0..(Len(html) - 1)}

\* line 200: a file of the output tree stands where a directory above dest
\* is to be made, so mkdir raises (FileExistsError or NotADirectoryError)
MkdirRaises(tree, dest) ==
    \E d \in DOMAIN tree : StartsWithAt(dest, d \o <<"/">>, 1)

\* line 204: dest is a directory of the output tree, so open raises
\* (IsADirectoryError)
OpenRaises(tree, dest) ==
    \E d \in DOMAIN tree : StartsWithAt(d, dest \o <<"/">>, 1)

\* main() is invoked (line 211) on whatever OUTPUT_DIR holds, and once more
\* after a build that completed or aborted.
StartBuild ==
    /\ pc \in {"idle", "done", "aborted"}
    /\ run \in {"none", "first"}
    /\ run' = (IF run = "none" THEN "first" ELSE "second")
    /\ prevSite' = site
    /\ prevDone' = (pc = "done")
    /\ template' = None /\ md_files' = <<>>
    /\ written' = NoTree /\ failedAt' = NoFailure
    /\ pc' = "clean"
    /\ UNCHANGED <<envVars, site, arg, ret>>

\* lines 183-185
CleanOutput ==
    /\ pc = "clean"
    /\ site' = rmtree_and_mkdir(site)
    /\ pc' = "load"
    /\ UNCHANGED <<envVars, run, template, md_files, written, failedAt,
                   prevSite, prevDone, arg, ret>>

\* line 188, TEMPLATE_FILE is there
LoadTemplate ==
    /\ pc = "load"
    /\ templateFile # NoFile
    /\ template' = templateFile
    /\ pc' = "discover"
    /\ UNCHANGED <<envVars, site, run, md_files, written, failedAt,
                   prevSite, prevDone, arg, ret>>

\* line 188, TEMPLATE_FILE is missing: read_text raises
LoadTemplateFails ==
    /\ pc = "load"
    /\ templateFile = NoFile
    /\ pc' = "aborted"
    /\ UNCHANGED <<envVars, buildVars, arg, ret>>

\* lines 191-192: rglob walks the tree in the order the file system lists
\* each directory during this run
Discover ==
    /\ pc = "discover"
    /\ \E order \in ScanOrders(DOMAIN docs) :
          /\ enum' = order
          /\ md_files' = RGlob(order)
    /\ pc' = "loop"
    /\ UNCHANGED <<docs, unreadable, templateFile, site, run, template,
                   written, failedAt, prevSite, prevDone, arg, ret>>

\* line 200: mkdir of the destination's parent raises
MkdirFails ==
    /\ pc = "loop"
    /\ md_files # <<>>
    /\ MkdirRaises(site, md_to_html_path(Head(md_files)))
    /\ pc' = "aborted"
    /\ UNCHANGED <<envVars, buildVars, arg, ret>>

\* line 203: build_page raises on a path it cannot read
PageReadFails ==
    /\ pc = "loop"
    /\ md_files # <<>>
    /\ ~MkdirRaises(site, md_to_html_path(Head(md_files)))
    /\ build_page_raises(Head(md_files))
    /\ pc' = "aborted"
    /\ UNCHANGED <<envVars, buildVars, arg, ret>>

\* lines 195-205, one iteration that completes
BuildAndWritePage ==
    /\ pc = "loop"
    /\ md_files # <<>>
    /\ ~MkdirRaises(site, md_to_html_path(Head(md_files)))
    /\ ~build_page_raises(Head(md_files))
    /\ ~OpenRaises(site, md_to_html_path(Head(md_files)))
    /\ LET dest == md_to_html_path(Head(md_files))
           html == build_page(Head(md_files), template)
       IN /\ site' = WithFile(site, dest, html)
          /\ written' = WithFile(written, dest, html)
    /\ md_files' = Tail(md_files)
    /\ UNCHANGED <<envVars, pc, run, template, failedAt, prevSite, prevDone,
                   arg, ret>>

\* line 204: write_text raises before the file is opened for writing
WriteOpenFails ==
    /\ pc = "loop"
    /\ md_files # <<>>
    /\ ~MkdirRaises(site, md_to_html_path(Head(md_files)))
    /\ ~build_page_raises(Head(md_files))
    /\ failedAt' = [dest |-> md_to_html_path(Head(md_files)),
                    html |-> build_page(Head(md_files), template)]
    /\ pc' = "aborted"
    /\ UNCHANGED <<envVars, site, run, template, md_files, written,
                   prevSite, prevDone, arg, ret>>

\* line 204: write_text raises after open(..., 'w') has truncated the file
WriteFailsPartway ==
    /\ pc = "loop"
    /\ md_files # <<>>
    /\ ~MkdirRaises(site, md_to_html_path(Head(md_files)))
    /\ ~build_page_raises(Head(md_files))
    /\ ~OpenRaises(site, md_to_html_path(Head(md_files)))
    /\ LET dest == md_to_html_path(Head(md_files))
           html == build_page(Head(md_files), template)
       IN /\ failedAt' = [dest |-> dest, html |-> html]
          /\ \E part \in CutOff(html) : site' = WithFile(site, dest, part)
    /\ pc' = "aborted"
    /\ UNCHANGED <<envVars, run, template, md_files, written,
                   prevSite, prevDone, arg, ret>>

\* line 207: the loop is over
FinishBuild ==
    /\ pc = "loop"
    /\ md_files = <<>>
    /\ pc' = "done"
    /\ UNCHANGED <<envVars, buildVars, arg, ret>>

-----------------------------------------------------------------------------
(* Function calls under study: one call, its argument drawn from a bounded *)
(* set, its result kept in ret.                                            *)

\* main() is not running and has left nothing behind.
BuildIdle ==
    /\ site = NoTree /\ run = "none" /\ template = None /\ md_files = <<>>
    /\ written = NoTree /\ failedAt = NoFailure /\ prevSite = NoTree
    /\ prevDone = FALSE

FnInit(args) ==
    /\ docs = NoTree /\ enum = NoTree /\ unreadable = {} /\ templateFile = NoFile
    /\ BuildIdle
    /\ pc = "call" /\ ret = None
    /\ arg \in args

FnReturn(value) ==
    /\ pc = "call"
    /\ pc' = "return"
    /\ ret' = value
    /\ UNCHANGED <<envVars, buildVars, arg>>

\* The call raises instead of returning.
FnRaise ==
    /\ pc = "call"
    /\ pc' = "raised"
    /\ UNCHANGED <<envVars, buildVars, arg, ret>>

\* All sequences over the set S of length at most n.
SeqsUpTo(S, n) == UNION {[1..k -> S] : k \in 0..n}

-----------------------------------------------------------------------------
(* Calls of md_to_html_path                                                *)

MaxNameChunks == 2

NameChunks == {<<"a">>, <<".">>, <<"R","E","A","D","M","E">>, dot_md,
               <<"i","n","d","e","x">>, <<"-","b">>}

\* File names that rglob("*.md") can find.
MdNames == {Flatten(cs) \o dot_md : cs \in SeqsUpTo(NameChunks, MaxNameChunks)}

core_guides == <<"c","o","r","e","-","g","u","i","d","e","s">>
getting_started == <<"g","e","t","t","i","n","g","-","s","t","a","r","t","e","d">>
sub_dir == <<"s","u","b">>

PathDirs == {<<>>, <<core_guides>>, <<core_guides, sub_dir>>}

PathInit == FnInit({[rel |-> d \o <<n>>] : d \in PathDirs, n \in MdNames})
CallMdToHtmlPath == FnReturn(md_to_html_path(arg.rel))
PathNext == CallMdToHtmlPath
PathSpec == PathInit /\ [][PathNext]_vars

\* C3: README.md in directory D maps to D/index.html and every other
\* markdown path P.md maps to P.html.
C3_PathMapping ==
    pc = "return" =>
        LET s == PathStr(arg.rel)
        IN IF Name(arg.rel) = README_md
           THEN ret = SubSeq(s, 1, Len(s) - Len(README_md)) \o index_html
           ELSE ret = SubSeq(s, 1, Len(s) - Len(dot_md)) \o dot_html

-----------------------------------------------------------------------------
(* Calls of get_title_from_markdown                                        *)

MaxContentLen == 5

TitleAlphabet == {"#", " ", "\n", "\f", "a"}

TitlePaths == {<<README_md>>, <<core_guides, README_md>>,
               <<core_guides, <<"a","_","b",".","m","d">> >>}

TitleInit == FnInit([content : SeqsUpTo(TitleAlphabet, MaxContentLen),
                     rel : TitlePaths])
CallGetTitle == FnReturn(get_title_from_markdown(arg.content, arg.rel))
TitleNext == CallGetTitle
TitleSpec == TitleInit /\ [][TitleNext]_vars

\* The line of content that starts at position i.
LineAt(content, i) == SubSeq(content, i, LineEnd(content, i) - 1)
LineStarts(content) ==
    {i \in 1..Len(content) : i = 1 \/ content[i - 1] = "\n"}

\* A level-1 heading line: "#", then whitespace, then text, on one line.
IsHeadingLine(line) ==
    /\ Len(line) >= 3
    /\ line[1] = "#"
    /\ IsSpace(line[2])
    /\ Strip(From(line, 2)) # <<>>

HeadingLineStarts(content) ==
    {i \in LineStarts(content) : IsHeadingLine(LineAt(content, i))}

FirstHeadingText(content) ==
    LET hs == HeadingLineStarts(content)
        i == CHOOSE i \in hs : \A j \in hs : i <= j
    IN Strip(From(LineAt(content, i), 2))

\* C7: for content with a level-1 heading line the title is the trimmed text
\* of the first such line, and a heading match takes its text from the line
\* that carries the "#".
C7_TitleIsFirstHeading ==
    pc = "return" =>
        /\ HeadingLineStarts(arg.content) # {} =>
               ret = FirstHeadingText(arg.content)
        /\ HeadingStart(arg.content) # 0 =>
               LineEnd(arg.content, HeadingStart(arg.content)) =
               LineEnd(arg.content,
                       HeadingGroupStart(arg.content, HeadingStart(arg.content)))

\* C8: the title is never the empty string.
C8_TitleNonEmpty == pc = "return" => ret # <<>>

-----------------------------------------------------------------------------
(* Calls of convert_internal_links                                         *)

MaxLinkChunks == 5

LinkChunks == {<<"]", "(">>, <<")">>, dot_md, dot_html, <<"a">>,
               <<"R","E","A","D","M","E">>, <<"/","R","E","A","D","M","E">>}

LinkTexts == {Flatten(cs) : cs \in SeqsUpTo(LinkChunks, MaxLinkChunks)}

LinkInit == FnInit({[content |-> t] : t \in LinkTexts})
CallConvertInternalLinks == FnReturn(convert_internal_links(arg.content))
LinkNext == CallConvertInternalLinks
LinkSpec == LinkInit /\ [][LinkNext]_vars

\* C6: convert_internal_links is idempotent: rewriting its own output
\* changes nothing.
C6_LinksIdempotent ==
    pc = "return" => convert_internal_links(ret) = ret

\* A text in which the .md rule and a README rule both fired.
C6_Witness ==
    /\ pc = "return"
    /\ Contains(arg.content, <<"/","R","E","A","D","M","E",".","m","d",")">>)
    /\ Contains(ret, slash_index_html)
    /\ ret # arg.content

-----------------------------------------------------------------------------
-----------------------------------------------------------------------------
(* Documentation trees for the navigation builder                          *)

MaxTreeFiles == 3

topic_a_md == <<"t","o","p","i","c","-","a",".","m","d">>
b_topic_md == <<"b","-","t","o","p","i","c",".","m","d">>
Zed_md == <<"Z","e","d",".","m","d">>
page_md == <<"p","a","g","e",".","m","d">>
install_md == <<"i","n","s","t","a","l","l",".","m","d">>
index_md == <<"i","n","d","e","x",".","m","d">>
notes_txt == <<"n","o","t","e","s",".","t","x","t">>
x_md == <<"x",".","m","d">>

\* The regular files a tree is made of.  x.md and, in one case, README.md
\* are directories of core-guides here.
NavUniverse == {
    <<core_guides, README_md>>, <<core_guides, topic_a_md>>,
    <<core_guides, b_topic_md>>, <<core_guides, Zed_md>>,
    <<core_guides, notes_txt>>, <<core_guides, sub_dir, page_md>>,
    <<core_guides, sub_dir, README_md>>, <<getting_started, install_md>>,
    <<index_md>>, <<core_guides, x_md, page_md>>,
    <<core_guides, README_md, page_md>>}

\* No path is a regular file and a directory at once.
IsTree(files) == \A f, g \in files : f # g => ~IsPrefix(f, g)

NavTrees ==
    {F \in SUBSET NavUniverse : Cardinality(F) <= MaxTreeFiles /\ IsTree(F)}

\* What each file of the universe holds.
NavText(f) ==
    CASE f = <<core_guides, README_md>> -> <<"#"," ","C","o","r","e">>
      [] f = <<core_guides, topic_a_md>> -> <<"i","n","t","r","o","\n","#"," ","T","o","p","i","c"," ","A">>
      [] f = <<core_guides, b_topic_md>> -> <<>>
      [] f = <<core_guides, Zed_md>> -> <<"#"," ","Z","e","d">>
      [] f = <<core_guides, sub_dir, page_md>> -> <<"#"," ","P","a","g","e">>
      [] f = <<getting_started, install_md>> -> <<"#"," ","I","n","s","t","a","l","l">>
      [] f = <<index_md>> -> <<"#"," ","W","e","l","c","o","m","e">>
      [] OTHER -> <<"t","e","x","t">>

NavInit ==
    /\ \E files \in NavTrees :
          /\ docs = [f \in files |-> NavText(f)]
          /\ enum \in ScanOrders(files)
          /\ arg \in {[rel |-> f] : f \in {g \in files : MatchesStarMd(Name(g))}}
    /\ unreadable = {} /\ templateFile = NoFile
    /\ BuildIdle
    /\ pc = "call" /\ ret = None

-----------------------------------------------------------------------------
(* Calls of build_sidebar, for the page build_page renders (lines 165-166) *)

CallBuildSidebar ==
    /\ ~build_sidebar_raises
    /\ FnReturn([html |-> sidebar_html(md_to_html_path(arg.rel)),
                 text |-> build_sidebar(md_to_html_path(arg.rel))])

\* line 93 raises on a child that is a directory
BuildSidebarRaises ==
    /\ build_sidebar_raises
    /\ FnRaise

SidebarNext == CallBuildSidebar \/ BuildSidebarRaises
SidebarSpec == NavInit /\ [][SidebarNext]_vars

IsTopLevel(item) == item.kind \in {"section", "page"}

\* Index in html of the i-th top-level entry.
TopPosition(html, i) ==
    CHOOSE j \in 1..Len(html) :
        /\ IsTopLevel(html[j])
        /\ Cardinality({k \in 1..j : IsTopLevel(html[k])}) = i

\* The items that belong to the i-th of n top-level entries.
EntrySpan(html, i, n) ==
    SubSeq(html, TopPosition(html, i) + 1,
           (IF i < n THEN TopPosition(html, i + 1) ELSE Len(html) + 1) - 1)

\* The markdown files directly in dir other than its README.
SectionPages(dir) ==
    {f \in DOMAIN docs :
        Parent(f) = dir /\ EndsWith(Name(f), dot_md) /\ Name(f) # README_md}

\* C5: one top-level entry per navigation entry in configuration order; the
\* child links of a section whose directory exists are its direct markdown
\* files other than README.md, in lexicographic file name order, each with
\* the file's destination URL and the title of its content; a section whose
\* directory is absent has no child list.
C5_SidebarEntries ==
    pc = "return" =>
        LET html == ret.html
            n == Len(NAV_STRUCTURE)
            top == SelectSeq(html, IsTopLevel)
        IN /\ Len(top) = n
           /\ \A i \in 1..n :
                 /\ top[i].url = NAV_STRUCTURE[i].url
                 /\ top[i].title = NAV_STRUCTURE[i].title
           /\ \A i \in 1..n :
                 LET span == EntrySpan(html, i, n)
                     kids == SelectSeq(span, LAMBDA it : it.kind = "child")
                     dir == <<NAV_STRUCTURE[i].section_dir>>
                     pages == SectionPages(dir)
                 IN IF NAV_STRUCTURE[i].section_dir # None /\ Exists(dir)
                    THEN /\ Len(kids) = Cardinality(pages)
                         /\ \A f \in pages :
                               LET k == 1 + Cardinality(
                                       {g \in pages : StrLess(Name(g), Name(f))})
                               IN /\ kids[k].url = md_to_html_path(f)
                                  /\ kids[k].title =
                                         get_title_from_markdown(docs[f], f)
                    ELSE /\ kids = <<>>
                         /\ \A k \in 1..Len(span) : span[k].kind # "<ul>"
           /\ Len(SplitLines(ret.text)) = Len(html)

\* A section with a README and two pages that the file system lists in
\* another order than the sorted one.
C5_Witness ==
    /\ pc = "return"
    /\ <<core_guides, README_md>> \in DOMAIN docs
    /\ Cardinality(SectionPages(<<core_guides>>)) = 2
    /\ Glob(<<core_guides>>) # Sorted(Glob(<<core_guides>>))
    /\ ~Exists(<<getting_started>>)

-----------------------------------------------------------------------------
(* Calls of build_breadcrumb                                               *)

CallBuildBreadcrumb == FnReturn(build_breadcrumb(arg.rel))
BreadcrumbNext == CallBuildBreadcrumb
BreadcrumbSpec == NavInit /\ [][BreadcrumbNext]_vars

\* A relative URL (its parts) resolved from a page in directory base.
RECURSIVE Resolve(_, _)
Resolve(base, href) ==
    IF href = <<>> THEN base
    ELSE IF Head(href) = <<".", ".">> THEN Resolve(Parent(base), Tail(href))
    ELSE Resolve(base \o <<Head(href)>>, Tail(href))

IndexHrefs == {<<index_html>>, <<<<".", ".">>, index_html>>,
               <<<<".", ".">>, <<".", ".">>, index_html>>}

\* C4: a page inside a section other than the section's README has two
\* crumbs, a link that resolves from the page to <section>/index.html
\* labelled with the section title, then the page's title; the section's
\* README has one unlinked crumb; a top-level page has none.
C4_Breadcrumb ==
    pc = "return" =>
        LET rel == arg.rel IN
        IF Len(rel) = 1 THEN ret = <<>>
        ELSE IF rel = <<rel[1], README_md>>
        THEN ret = <<"<","l","i",">">> \o SectionTitle(rel[1]) \o <<"<","/","l","i",">">>
        ELSE \E href \in IndexHrefs :
                /\ Resolve(Parent(rel), href) = <<rel[1], index_html>>
                /\ ret = <<"<","l","i",">","<","a"," ","h","r","e","f","=","\"">> \o PathStr(href) \o <<"\"",">">>
                         \o SectionTitle(rel[1]) \o <<"<","/","a",">","<","/","l","i",">","<","l","i",">">>
                         \o get_title_from_markdown(docs[rel], rel)
                         \o <<"<","/","l","i",">">>

-----------------------------------------------------------------------------
(* Calls of build_page                                                     *)

MaxPageChunks == 3

\* "{{side" completes to "{{sidebar}}" in front of "bar}}".
PageChunks == {<<"#"," ">>, <<"x">>, <<"\n">>, TITLE, SIDEBAR, BREADCRUMB, CONTENT,
               <<"{","{","s","i","d","e">>}

PageTexts == {Flatten(cs) : cs \in SeqsUpTo(PageChunks, MaxPageChunks)}

PageTemplates == {
    <<"<","t","i","t","l","e",">","{","{","t","i","t","l","e","}","}","<","/","t","i","t","l","e",">","<","n","a","v",">","{","{","s","i","d","e","b","a","r","}","}","<","/","n","a","v",">","<","o","l",">","{","{","b","r","e","a","d","c","r","u","m","b","}","}","<","/","o","l",">","<","m","a","i","n",">","{","{","c","o","n","t","e","n","t","}","}","<","/","m","a","i","n",">">>,
    <<"<","m","a","i","n",">","{","{","c","o","n","t","e","n","t","}","}","<","/","m","a","i","n",">","<","o","l",">","{","{","b","r","e","a","d","c","r","u","m","b","}","}","<","/","o","l",">","<","h","1",">","{","{","t","i","t","l","e","}","}","<","/","h","1",">","{","{","s","i","d","e","b","a","r","}","}","{","{","t","i","t","l","e","}","}">>,
    <<"<","m","a","i","n",">","{","{","c","o","n","t","e","n","t","}","}","<","/","m","a","i","n",">">>,
    <<"{","{","t","i","t","l","e","}","}","b","a","r","}","}","<","m","a","i","n",">","{","{","c","o","n","t","e","n","t","}","}","<","/","m","a","i","n",">">>}

PageInit ==
    /\ \E text \in PageTexts :
          docs = [f \in {<<core_guides, topic_a_md>>} |-> text]
    /\ enum \in ScanOrders({<<core_guides, topic_a_md>>})
    /\ unreadable = {} /\ templateFile = NoFile
    /\ BuildIdle
    /\ pc = "call" /\ ret = None
    /\ arg \in [rel : {<<core_guides, topic_a_md>>}, template : PageTemplates]

CallBuildPage == FnReturn(build_page(arg.rel, arg.template))
PageNext == CallBuildPage
PageSpec == PageInit /\ [][PageNext]_vars

Placeholders == {TITLE, SIDEBAR, BREADCRUMB, CONTENT}

\* text.split(token): the pieces of text between the occurrences of token.
RECURSIVE SplitOn(_, _)
SplitOn(text, token) ==
    LET i == FindFrom(text, token, 1)
    IN IF i = 0 THEN <<text>>
       ELSE <<SubSeq(text, 1, i - 1)>> \o SplitOn(From(text, i + Len(token)), token)

\* One filling step: value put between the pieces of text around token.
Filled(text, token, value) == Join(value, SplitOn(text, token))

\* C10 as stated: a placeholder token in the rendered content is itself
\* substituted, so the rendered content does not survive verbatim.
C10_TokenInContentIsSubstituted ==
    (/\ pc = "return"
     /\ Contains(arg.template, CONTENT)
     /\ \E t \in Placeholders : Contains(html_content_of(arg.rel), t))
    => ~Contains(ret, html_content_of(arg.rel))

\* C10 amended: the placeholders are filled in the order title, sidebar,
\* breadcrumb, content, each step over the whole text the steps before it
\* produced, so a token that an inserted title, sidebar or breadcrumb holds
\* or completes is filled by a later step; the rendered content, inserted
\* last, is not scanned again and stands verbatim in the page, with any
\* token it holds, wherever the template has the content placeholder.
C10_FillOrder ==
    pc = "return" =>
        LET rel == arg.rel
            title == get_title_from_markdown(docs[rel], rel)
            sidebar == build_sidebar(md_to_html_path(rel))
            content == html_content_of(rel)
            step1 == Filled(arg.template, TITLE, title)
            step2 == Filled(step1, SIDEBAR, sidebar)
            step3 == Filled(step2, BREADCRUMB, build_breadcrumb(rel))
        IN /\ ret = Filled(step3, CONTENT, content)
           /\ Contains(arg.template, CONTENT) => Contains(ret, content)

\* A page whose rendered content holds the title token, built from a
\* template that has the content placeholder.
C10_Witness ==
    /\ pc = "return"
    /\ Contains(arg.template, CONTENT)
    /\ Contains(arg.template, TITLE)
    /\ Contains(html_content_of(arg.rel), TITLE)
    /\ Contains(get_title_from_markdown(docs[arg.rel], arg.rel), CONTENT)
    /\ Contains(ret, TITLE)

-----------------------------------------------------------------------------
(* Runs of main                                                            *)

\* A template without the sidebar placeholder, so that pages stay short.
BuildTemplate == <<"{","{","t","i","t","l","e","}","}","|","{","{","b","r","e","a","d","c","r","u","m","b","}","}","|","{","{","c","o","n","t","e","n","t","}","}">>

a_md == <<"a",".","m","d">>
a_html == <<"a",".","h","t","m","l">>
b_md == <<"b",".","m","d">>

\* The tree of the end-to-end example; one with a README.md and an index.md
\* in the same directory; one with a file a.md beside a directory a.html.
BuildTrees == {
    (<<index_md>> :> <<"#"," ","W","e","l","c","o","m","e">>)
        @@ (<<getting_started, README_md>> :> <<"#"," ","S","t","a","r","t">>)
        @@ (<<getting_started, install_md>> :> <<"#"," ","I","n","s","t","a","l","l">>),
    (<<getting_started, README_md>> :> <<"#"," ","S","t","a","r","t">>)
        @@ (<<getting_started, index_md>> :> <<"#"," ","O","v","e","r","v","i","e","w">>)
        @@ (<<core_guides, topic_a_md>> :> <<"[","s","]","(",".",".","/","R","E","A","D","M","E",".","m","d",")">>),
    (<<a_md>> :> <<"#"," ","A">>)
        @@ (<<a_html, b_md>> :> <<"#"," ","B">>)}

\* What an earlier build may have left in OUTPUT_DIR.
StaleSite ==
    (<<"o","l","d",".","h","t","m","l">> :> <<"<","s","t","a","l","e",">">>)
    @@ (<<"g","e","t","t","i","n","g","-","s","t","a","r","t","e","d","/","i","n","d","e","x",".","h","t","m","l">> :> <<"<","s","t","a","l","e",">">>)

BuildInit ==
    /\ docs \in BuildTrees
    /\ enum = NoTree
    /\ unreadable \in {{}} \cup {{f} : f \in DOMAIN docs}
    /\ templateFile \in {NoFile, BuildTemplate}
    /\ site \in {NoTree, StaleSite}
    /\ run = "none" /\ template = None /\ md_files = <<>>
    /\ written = NoTree /\ failedAt = NoFailure /\ prevSite = NoTree
    /\ prevDone = FALSE
    /\ pc = "idle" /\ arg = None /\ ret = None

BuildNext ==
    \/ StartBuild
    \/ CleanOutput
    \/ LoadTemplate
    \/ LoadTemplateFails
    \/ Discover
    \/ MkdirFails
    \/ PageReadFails
    \/ BuildAndWritePage
    \/ WriteOpenFails
    \/ WriteFailsPartway
    \/ FinishBuild

BuildSpec == BuildInit /\ [][BuildNext]_vars

MdFiles == {f \in DOMAIN docs : MatchesStarMd(Name(f))}

\* C1: a second build in succession leaves the output tree exactly as the
\* first, completed, build left it.
C1_RebuildIsIdentical ==
    (pc = "done" /\ run = "second" /\ prevDone) => site = prevSite

\* C9: a completed build leaves one HTML file per markdown source, distinct
\* sources having distinct destinations.
C9_OnePagePerSource ==
    pc = "done" =>
        /\ Cardinality(DOMAIN site) = Cardinality(MdFiles)
        /\ \A f, g \in MdFiles :
               f # g => md_to_html_path(f) # md_to_html_path(g)

\* C2 as stated: after an abort the output tree holds exactly the pages this
\* run wrote before the error, and a missing template leaves it empty.
C2_AbortLeavesWrittenPages ==
    pc = "aborted" =>
        /\ site = written
        /\ templateFile = NoFile => site = NoTree

IsProperPrefix(s, t) == Len(s) < Len(t) /\ SubSeq(t, 1, Len(s)) = s

\* C2 amended: after an abort every file of the output tree is a page this
\* run wrote before the error, or the incomplete file at the destination
\* whose write failed; nothing of an earlier build is left, the file that
\* failed and those after it are still pending, and a missing template
\* leaves the output tree empty.
C2_AbortLeavesThisRunOnly ==
    pc = "aborted" =>
        /\ \A d \in DOMAIN site :
              \/ d \in DOMAIN written /\ site[d] = written[d]
              \/ /\ failedAt # NoFailure
                 /\ d = failedAt.dest
                 /\ IsProperPrefix(site[d], failedAt.html)
        /\ \A d \in DOMAIN written :
              /\ d \in DOMAIN site
              /\ site[d] = written[d] \/ (failedAt # NoFailure /\ d = failedAt.dest)
        /\ templateFile = NoFile => (site = NoTree /\ written = NoTree)
        /\ templateFile # NoFile => md_files # <<>>

\* A write failed part of the way after a page had been written, over what
\* an earlier build had left.
C2_Witness ==
    /\ pc = "aborted"
    /\ prevSite # NoTree
    /\ written # NoTree
    /\ failedAt # NoFailure
    /\ failedAt.dest \in DOMAIN site
    /\ failedAt.dest \notin DOMAIN written
    /\ site[failedAt.dest] # <<>>

====
